---- MODULE Spec2Model ----
(***************************************************************************)
(* Model of install.py, the installer of the media-library-source-worker.  *)
(* One run of main() is a sequential process: its position is pc, the      *)
(* operator's answers and the outcomes of external commands are inputs     *)
(* chosen at the step that reads them, and the disk (directories, the      *)
(* cloned tree and its two configuration files) is state.                  *)
(* Text is modelled as a sequence of one-character strings (a fixed name   *)
(* such as the repository's is one element) so that str.strip, str.lower,  *)
(* os.path.expanduser and os.path.abspath are computed, not assumed.       *)
(***************************************************************************)
EXTENDS Integers, Sequences, FiniteSets, TLC

(***************************************************************************)
(* Text helpers                                                            *)
(***************************************************************************)

\* Characters str.strip() removes; the inputs below use the blank only.
Whitespace == {" ", "\n", "\t"}

\* str.strip(), leading part.
RECURSIVE LStrip(_)
LStrip(s) ==
    IF s # <<>> /\ Head(s) \in Whitespace THEN LStrip(Tail(s)) ELSE s

\* str.strip(), trailing part.
RECURSIVE RStrip(_)
RStrip(s) ==
    IF s # <<>> /\ s[Len(s)] \in Whitespace
    THEN RStrip(SubSeq(s, 1, Len(s) - 1))
    ELSE s

\* str.strip()
Strip(s) == RStrip(LStrip(s))

\* str.lower() on one character (the letters the inputs use).
LowerChar(c) ==
    CASE c = "Y" -> "y"
      [] c = "N" -> "n"
      [] c = "E" -> "e"
      [] c = "S" -> "s"
      [] OTHER -> c

\* str.lower()
Lower(s) == [i \in DOMAIN s |-> LowerChar(s[i])]

\* The value of HOME in the installer's environment.
Home == <<"/", "h">>

\* os.getcwd()
Cwd == <<"/", "w">>

\* s without its trailing "/" characters (userhome.rstrip("/")).
RECURSIVE RStripSlash(_)
RStripSlash(s) ==
    IF s # <<>> /\ s[Len(s)] = "/"
    THEN RStripSlash(SubSeq(s, 1, Len(s) - 1))
    ELSE s

\* Index of the first "/" of p at or after i, Len(p) + 1 when there is none.
RECURSIVE FindSlash(_, _)
FindSlash(p, i) ==
    IF i > Len(p) THEN Len(p) + 1
    ELSE IF p[i] = "/" THEN i
    ELSE FindSlash(p, i + 1)

\* os.path.expanduser: "~" and "~/..." use HOME; "~name" looks the user up
\* in the password database, where no user of the inputs exists, which
\* leaves the path as it is.
ExpandUser(p) ==
    IF p = <<>> \/ Head(p) # "~" THEN p
    ELSE LET i == FindSlash(p, 2)
         IN  IF i # 2 THEN p
             ELSE LET r == RStripSlash(Home) \o SubSeq(p, i, Len(p))
                  IN  IF r = <<>> THEN <<"/">> ELSE r

\* The components of p between "/" characters, empty ones included.
RECURSIVE Split(_)
Split(p) ==
    LET i == FindSlash(p, 1)
    IN  IF i > Len(p) THEN <<p>>
        ELSE <<SubSeq(p, 1, i - 1)>> \o Split(SubSeq(p, i + 1, Len(p)))

\* The loop of posixpath.normpath over the components: empty and "."
\* components are skipped, ".." removes the component before it.
RECURSIVE NormComps(_, _, _)
NormComps(comps, acc, rooted) ==
    IF comps = <<>> THEN acc
    ELSE LET c == Head(comps)
             dd == <<".", ".">>
         IN  IF c = <<>> \/ c = <<".">>
             THEN NormComps(Tail(comps), acc, rooted)
             ELSE IF c # dd \/ (~rooted /\ acc = <<>>)
                          \/ (acc # <<>> /\ acc[Len(acc)] = dd)
             THEN NormComps(Tail(comps), Append(acc, c), rooted)
             ELSE IF acc # <<>>
             THEN NormComps(Tail(comps), SubSeq(acc, 1, Len(acc) - 1), rooted)
             ELSE NormComps(Tail(comps), acc, rooted)

\* "/".join(comps)
RECURSIVE JoinSlash(_)
JoinSlash(comps) ==
    IF comps = <<>> THEN <<>>
    ELSE IF Len(comps) = 1 THEN Head(comps)
    ELSE Head(comps) \o <<"/">> \o JoinSlash(Tail(comps))

\* posixpath.normpath
NormPath(p) ==
    IF p = <<>> THEN <<".">>
    ELSE LET lead == IF Head(p) # "/" THEN <<>>
                     ELSE IF Len(p) >= 2 /\ p[2] = "/" /\ ~(Len(p) >= 3 /\ p[3] = "/")
                     THEN <<"/", "/">>
                     ELSE <<"/">>
             r == lead \o JoinSlash(NormComps(Split(p), <<>>, lead # <<>>))
         IN  IF r = <<>> THEN <<".">> ELSE r

\* os.path.join(a, b)
PathJoin(a, b) ==
    IF b # <<>> /\ Head(b) = "/" THEN b
    ELSE IF a = <<>> \/ a[Len(a)] = "/" THEN a \o b
    ELSE a \o <<"/">> \o b

\* os.path.abspath
AbsPath(p) ==
    NormPath(IF p # <<>> /\ Head(p) = "/" THEN p ELSE PathJoin(Cwd, p))

(***************************************************************************)
(* JSON documents and files                                                *)
(***************************************************************************)

\* The three keys update_config assigns.
TargetKeys == {"libraryPath", "libraryMoviePath", "libraryTvPath"}

\* A file is absent, holds text that is no JSON ("garbage": an empty or
\* truncated file is one), holds a JSON array, or holds the text of a JSON
\* object: its "key": value members in the order written, where a key may
\* occur more than once.
AbsentFile == [kind |-> "absent", pairs |-> <<>>]
GarbageFile == [kind |-> "garbage", pairs |-> <<>>]
ArrayFile == [kind |-> "array", pairs |-> <<>>]
ObjFile(pairs) == [kind |-> "object", pairs |-> pairs]

\* dict.keys()
DictKeys(d) == {d[i][1] : i \in DOMAIN d}

\* d[k], for a key of d
DictGet(d, k) == d[CHOOSE i \in DOMAIN d : d[i][1] = k][2]

\* An assignment that adds a member each time, whether or not the key is
\* there already.
DictSetAppend(d, k, v) == Append(d, <<k, v>>)

\* d[k] = v on a Python dict: an existing key keeps its position and takes
\* the new value, a new key goes to the end.
DictSet(d, k, v) ==
    IF k \in DictKeys(d)
    THEN [i \in DOMAIN d |-> IF d[i][1] = k THEN <<k, v>> ELSE d[i]]
    ELSE Append(d, <<k, v>>)

\* The dict json.load builds from the members of an object's text.
RECURSIVE DictFromPairs(_, _)
DictFromPairs(pairs, acc) ==
    IF pairs = <<>> THEN acc
    ELSE DictFromPairs(Tail(pairs), DictSet(acc, Head(pairs)[1], Head(pairs)[2]))

\* A load that takes text that is no JSON for an empty object.
JsonLoadLenient(file) ==
    [raised |-> FALSE,
     isdict |-> file.kind # "array",
     dict |-> IF file.kind = "object" THEN DictFromPairs(file.pairs, <<>>) ELSE <<>>]

\* json.load(f): raises on text that is no JSON; an array loads as a list,
\* an object as a dict.
JsonLoad(file) ==
    [raised |-> file.kind \notin {"object", "array"},
     isdict |-> file.kind = "object",
     dict |-> IF file.kind = "object" THEN DictFromPairs(file.pairs, <<>>) ELSE <<>>]

\* json.dump(config, f, indent=2) of a dict
JsonDump(d) == ObjFile(d)

\* Values found in a shipped configuration file.
OldA == <<"o">>
OldB == <<"8">>

\* The object text most shipped files hold.
PlainFile == ObjFile(<< <<"port", OldB>>, <<"libraryPath", OldA>> >>)

\* What the remote may ship at config/dev.json or config/prod.json.
ShippedFiles ==
    {AbsentFile, GarbageFile, ArrayFile, PlainFile,
     ObjFile(<<>>),
     ObjFile(<< <<"libraryTvPath", OldA>>, <<"name", OldA>>,
                <<"libraryMoviePath", OldB>> >>),
     ObjFile(<< <<"port", OldA>>, <<"port", OldB>> >>)}

\* The two configuration files of a tree.
ConfigFiles == {"dev.json", "prod.json"}

\* A tree at repo_path: nothing there ("none") or a directory with its two
\* configuration files.
NoRepo == [state |-> "none", files |-> [f \in ConfigFiles |-> AbsentFile]]
Tree(dev, prod) ==
    [state |-> "dir",
     files |-> [f \in ConfigFiles |-> IF f = "dev.json" THEN dev ELSE prod]]

\* The trees a successful clone may deliver.
ShippedTrees ==
    {Tree(d, p) : d \in ShippedFiles, p \in {PlainFile}}
        \cup {Tree(d, p) : d \in {PlainFile}, p \in ShippedFiles}

\* A directory whose files are missing: an interrupted clone or removal.
PartialTree == Tree(AbsentFile, AbsentFile)

\* What an earlier run may have left at the default install path: nothing,
\* a partial clone, an untouched clone, a clone with a truncated
\* configuration file, a clone whose configuration file was rewritten.
EarlierTrees ==
    {NoRepo, PartialTree, Tree(PlainFile, PlainFile),
     Tree(GarbageFile, PlainFile),
     Tree(PlainFile,
          ObjFile(<< <<"port", OldB>>, <<"libraryPath", <<"/", "x">> >>,
                     <<"libraryMoviePath", <<"m">> >>,
                     <<"libraryTvPath", <<"t">> >> >>))}

(***************************************************************************)
(* Inputs                                                                  *)
(***************************************************************************)

\* Most library-path entries the operator has rejected before the operator
\* gives one that is accepted.
MaxRejects == 2

\* repo_name of clone_repository
RepoName == <<"media-library-source-worker">>

\* The regular files that exist on disk besides the trees.
Files == {<<"/", "f">>}

\* Answers to "Enter installation path": Enter alone, a blank, a path under
\* the home directory that does not exist yet, a relative path that does not
\* exist yet, the path of a regular file.
InstallInputs ==
    {<<>>, <<" ">>, <<" ", "~", "/", "i", " ">>, <<"r", "/", "/", ".", "/">>,
     <<"/", "f">>}

\* Answers to "Enter full absolute path to movie library": Enter alone, a
\* blank, a directory that exists, a path under the home directory that
\* does not exist.
LibraryInputs == {<<>>, <<" ">>, <<" ", "/", "a", " ">>, <<"~", "/", "b">>}

\* Answers to "Continue anyway? (y/n)".
ConfirmInputs ==
    {<<"y">>, <<" ", "Y", " ">>, <<"n">>, <<>>, <<"y", "e", "s">>}

\* Answers to a collection prompt.
CollectionInputs == {<<>>, <<" ">>, <<" ", "c", " ">>}

\* Exit codes of an external command: success, failure, and what the shell
\* gives for a command it cannot find.
ExitCodes == {0, 1, 127}

\* Exit codes of a lifecycle script.
ScriptExitCodes == {0, 1}

\* STAGE in an environment: unset, or set to a value.
NoStage == [set |-> FALSE, value |-> ""]
StageIs(v) == [set |-> TRUE, value |-> v]

\* STAGE in the environment the installer is started in.
ParentStages == {NoStage, StageIs("dev"), StageIs("qa")}

\* The directories get_install_path can return.
InstallDirs ==
    {Cwd} \cup {AbsPath(ExpandUser(Strip(i))) :
                   i \in {j \in InstallInputs : Strip(j) # <<>>}}

(***************************************************************************)
(* State                                                                   *)
(***************************************************************************)

VARIABLES
    pc,             \* position of the run in main()
    is_dev,         \* args.dev
    environ,        \* STAGE in os.environ
    exit_status,    \* the process's exit status once pc = "exited"
    summary,        \* what the final summary printed, <<>> before
    dirs,           \* the directories that exist on disk
    repos,          \* the tree at <install dir>/media-library-source-worker
    removed_existing,  \* "Existing repository removed" was printed
    install_path, repo_path, library_path, movie_path, tv_path,
    entry,          \* get_library_path: library_path of this iteration
    last_input,     \* what input() returned to get_install_path or
                    \* get_collection_path last, <<>> outside
    response,       \* get_library_path: the confirmation answer, lowered
    rejects,        \* number of library-path entries rejected so far
    docker_check,   \* check_docker: its local docker_check while it runs
    check_docker_result,  \* what check_docker returned: "none" before
    runtime_up,     \* both docker commands exited zero
    config,         \* update_config: the loaded dict
    opened,         \* the configuration files opened, with the mode
    env,            \* STAGE in the environment given to the scripts
    procs,          \* the external commands now running
    invoked,        \* the lifecycle scripts started, in order
    returncodes     \* process.returncode of each script waited for, in order

vars ==
    <<pc, is_dev, environ, exit_status, summary, dirs, repos,
      removed_existing, last_input, docker_check, install_path,
      repo_path, library_path, movie_path, tv_path, entry, response, rejects,
      check_docker_result, runtime_up, config, opened, env, procs, invoked,
      returncodes>>

\* A local variable that holds nothing: not yet assigned, or out of scope.
Unbound == [none |-> FALSE, out |-> <<"unbound">>]

\* The state at the start of main(): the flag and the environment are
\* given, the default install directory, the home directory and one library
\* directory exist, and an earlier run may have left a tree behind.
Init ==
    /\ pc = "get_install_path"
    /\ is_dev \in BOOLEAN
    /\ environ \in ParentStages
    /\ exit_status = 0
    /\ summary = <<>>
    /\ dirs = {Cwd, Home, <<"/", "a">>}
    /\ \E t \in EarlierTrees :
           repos = [d \in InstallDirs |-> IF d = Cwd THEN t ELSE NoRepo]
    /\ removed_existing = FALSE
    /\ install_path = <<>>
    /\ repo_path = <<>>
    /\ library_path = <<>>
    /\ movie_path = <<>>
    /\ tv_path = <<>>
    /\ entry = <<>>
    /\ last_input = <<>>
    /\ response = <<>>
    /\ rejects = 0
    /\ docker_check = Unbound
    /\ check_docker_result = "none"
    /\ runtime_up = FALSE
    /\ config = <<>>
    /\ opened = {}
    /\ env = NoStage
    /\ procs = {}
    /\ invoked = <<>>
    /\ returncodes = <<>>

\* sys.exit(code), and the return from main() with code 0.
Exit(code) ==
    /\ pc' = "exited"
    /\ exit_status' = code

\* os.path.exists(p) for a path outside the trees
Exists(p) == p \in dirs \cup Files

(***************************************************************************)
(* run_command                                                             *)
(***************************************************************************)

\* The result None of run_command, and a returned text.
None == [none |-> TRUE, out |-> <<>>]
Text(s) == [none |-> FALSE, out |-> s]

\* run_command(command, check=check) without allow_input, for a command that
\* exits with rc after writing stdout: subprocess.run raises
\* CalledProcessError only when check is set and rc is non-zero, and only
\* that exception gives None; otherwise the trimmed output is returned.
RunCommand(rc, stdout, check) ==
    IF check /\ rc # 0 THEN None ELSE Text(Strip(stdout))

\* What a command writes to its standard output, by its exit code.
Stdout(rc) == IF rc = 0 THEN <<"v", "1", "\n">> ELSE <<>>

(***************************************************************************)
(* get_install_path                                                        *)
(***************************************************************************)

\* get_install_path(): one prompt; Enter alone gives the current directory,
\* anything else is expanded and made absolute and the directory is created
\* when it does not exist, which may fail and then ends the process.
GetInstallPath ==
    /\ pc = "get_install_path"
    /\ \E inp \in InstallInputs, made \in BOOLEAN :
         LET user_input == Strip(inp)
             path == AbsPath(ExpandUser(user_input))
         IN  /\ last_input' = inp
             /\ IF user_input = <<>>
                THEN /\ install_path' = Cwd
                     /\ pc' = "clone_repository"
                     /\ UNCHANGED <<dirs, exit_status>>
                ELSE IF Exists(path)
                THEN /\ install_path' = path
                     /\ pc' = "clone_repository"
                     /\ UNCHANGED <<dirs, exit_status>>
                ELSE IF made
                THEN /\ dirs' = dirs \cup {path}
                     /\ install_path' = path
                     /\ pc' = "clone_repository"
                     /\ UNCHANGED exit_status
                ELSE /\ Exit(1)
                     /\ UNCHANGED <<dirs, install_path>>
    /\ UNCHANGED <<is_dev, docker_check, removed_existing, environ, summary, repos, repo_path, library_path,
                   movie_path, tv_path, entry, response, rejects,
                   check_docker_result, runtime_up, config, opened, env,
                   procs, invoked, returncodes>>

(***************************************************************************)
(* clone_repository                                                        *)
(***************************************************************************)

\* The tree now at the run's repo_path.
RepoTree == repos[install_path]

\* A removal step that leaves an existing tree where it is.
RemovedKeeping(tree) == tree

\* shutil.rmtree(repo_path) when it succeeds: nothing is left.
Removed(tree) == NoRepo

\* A clone step that keeps an existing tree and skips the clone.
CloneKeepExisting ==
    /\ pc = "clone_repository"
    /\ repo_path' = PathJoin(install_path, RepoName)
    /\ pc' = IF RepoTree.state # "none" THEN "check_docker" ELSE "git_clone"
    /\ UNCHANGED <<is_dev, docker_check, last_input, environ, summary, dirs,
                   install_path, library_path, movie_path, tv_path, entry,
                   response, rejects, check_docker_result, runtime_up, config,
                   opened, env, procs, invoked, returncodes, repos,
                   removed_existing, exit_status>>

\* Lines 95-105: repo_path is computed and an existing tree is removed; a
\* failing removal ends the process and may leave the tree whole or in part.
CloneRemove ==
    /\ pc = "clone_repository"
    /\ repo_path' = PathJoin(install_path, RepoName)
    /\ IF RepoTree.state # "none"
       THEN \E ok \in BOOLEAN :
              IF ok
              THEN /\ repos' = [repos EXCEPT ![install_path] = Removed(RepoTree)]
                   /\ removed_existing' = TRUE
                   /\ pc' = "git_clone"
                   /\ UNCHANGED exit_status
              ELSE /\ \E left \in {RepoTree, PartialTree} :
                        repos' = [repos EXCEPT ![install_path] = left]
                   /\ Exit(1)
                   /\ UNCHANGED removed_existing
       ELSE /\ pc' = "git_clone"
            /\ UNCHANGED <<repos, removed_existing, exit_status>>
    /\ UNCHANGED <<is_dev, docker_check, last_input, environ, summary, dirs, install_path, library_path,
                   movie_path, tv_path, entry, response, rejects,
                   check_docker_result, runtime_up, config, opened, env,
                   procs, invoked, returncodes>>

\* Line 109, the start of "git clone <repo_url>" in install_path. When
\* install_path is no directory subprocess.run raises NotADirectoryError,
\* which run_command does not catch: the process ends with a traceback and
\* status 1.
GitCloneSpawn ==
    /\ pc = "git_clone"
    /\ IF install_path \in dirs
       THEN /\ procs' = procs \cup {"git clone"}
            /\ pc' = "git_clone_wait"
            /\ UNCHANGED exit_status
       ELSE /\ Exit(1)
            /\ UNCHANGED procs
    /\ UNCHANGED <<is_dev, docker_check, last_input, removed_existing, environ, summary, dirs, repos,
                   install_path, repo_path, library_path, movie_path, tv_path,
                   entry, response, rejects, check_docker_result, runtime_up,
                   config, opened, env, invoked, returncodes>>

\* Lines 109-116, the end of "git clone": git exits zero only when nothing
\* was at the destination, and then a shipped tree is there; a failing
\* clone leaves nothing of its own. None ends the process.
GitCloneExit ==
    /\ pc = "git_clone_wait"
    /\ procs' = procs \ {"git clone"}
    /\ \E rc \in ExitCodes, t \in ShippedTrees :
         LET result == RunCommand(rc, <<>>, TRUE)
         IN  /\ rc = 0 => RepoTree.state = "none"
             /\ repos' = IF rc = 0 THEN [repos EXCEPT ![install_path] = t]
                         ELSE repos
             /\ IF result = None
                THEN Exit(1)
                ELSE /\ pc' = "check_docker"
                     /\ UNCHANGED exit_status
    /\ UNCHANGED <<is_dev, docker_check, last_input, removed_existing, environ, summary, dirs, install_path, repo_path,
                   library_path, movie_path, tv_path, entry, response, rejects,
                   check_docker_result, runtime_up, config, opened, env,
                   invoked, returncodes>>

(***************************************************************************)
(* check_docker                                                            *)
(***************************************************************************)

\* Line 46, the start of "docker --version".
DockerVersionSpawn ==
    /\ pc = "check_docker"
    /\ procs' = procs \cup {"docker --version"}
    /\ pc' = "docker_version_wait"
    /\ UNCHANGED <<is_dev, docker_check, last_input, removed_existing, environ, exit_status, summary, dirs, repos,
                   install_path, repo_path, library_path, movie_path, tv_path,
                   entry, response, rejects, check_docker_result, runtime_up,
                   config, opened, env, invoked, returncodes>>

\* Lines 46-52: docker_check = run_command("docker --version", check=False);
\* None makes check_docker return False, and main() then exits with 1.
DockerVersionExit ==
    /\ pc = "docker_version_wait"
    /\ procs' = procs \ {"docker --version"}
    /\ \E rc \in ExitCodes :
         LET result == RunCommand(rc, Stdout(rc), FALSE)
         IN  /\ runtime_up' = (rc = 0)
             /\ docker_check' = result
             /\ IF result = None
                THEN /\ check_docker_result' = "false"
                     /\ Exit(1)
                ELSE /\ pc' = "docker_ps"
                     /\ UNCHANGED <<check_docker_result, exit_status>>
    /\ UNCHANGED <<is_dev, last_input, removed_existing, environ, summary, dirs, repos, install_path,
                   repo_path, library_path, movie_path, tv_path, entry,
                   response, rejects, config, opened, env, invoked,
                   returncodes>>

\* Line 55, the start of "docker ps".
DockerPsSpawn ==
    /\ pc = "docker_ps"
    /\ procs' = procs \cup {"docker ps"}
    /\ pc' = "docker_ps_wait"
    /\ UNCHANGED <<is_dev, docker_check, last_input, removed_existing, environ, exit_status, summary, dirs, repos,
                   install_path, repo_path, library_path, movie_path, tv_path,
                   entry, response, rejects, check_docker_result, runtime_up,
                   config, opened, env, invoked, returncodes>>

\* Lines 55-62 and 276-277: docker_cli_check = run_command("docker ps",
\* check=False); None makes check_docker return False and main() exit with
\* 1, anything else makes it return True.
DockerPsExit ==
    /\ pc = "docker_ps_wait"
    /\ procs' = procs \ {"docker ps"}
    /\ \E rc \in ExitCodes :
         LET docker_cli_check == RunCommand(rc, Stdout(rc), FALSE)
         IN  /\ runtime_up' = (runtime_up /\ rc = 0)
             /\ docker_check' = Unbound
             /\ IF docker_cli_check = None
                THEN /\ check_docker_result' = "false"
                     /\ Exit(1)
                ELSE /\ check_docker_result' = "true"
                     /\ pc' = "get_library_path"
                     /\ UNCHANGED exit_status
    /\ UNCHANGED <<is_dev, last_input, removed_existing, environ, summary, dirs, repos, install_path,
                   repo_path, library_path, movie_path, tv_path, entry,
                   response, rejects, config, opened, env, invoked,
                   returncodes>>

(***************************************************************************)
(* get_library_path, get_collection_path                                   *)
(***************************************************************************)

\* A confirmation test that takes every answer but "n" as a yes.
AffirmativeUnlessNo(answer) == Lower(Strip(answer)) # <<"n">>

\* Lines 141-148: the answer, trimmed and lowered, is "y".
Affirmative(answer) == Lower(Strip(answer)) = <<"y">>

\* Lines 130-151, the path prompt of one iteration: an empty entry restarts
\* the loop, an entry that exists is returned, any other goes to the
\* confirmation prompt.
LibraryPrompt ==
    /\ pc = "get_library_path"
    /\ \E inp \in LibraryInputs :
         LET stripped == Strip(inp)
             expanded == ExpandUser(stripped)
         IN  IF stripped = <<>>
             THEN /\ rejects < MaxRejects
                  /\ rejects' = rejects + 1
                  /\ entry' = <<>>
                  /\ UNCHANGED <<pc, library_path>>
             ELSE IF ~Exists(expanded)
             THEN /\ entry' = expanded
                  /\ pc' = "confirm_library_path"
                  /\ UNCHANGED <<library_path, rejects>>
             ELSE /\ entry' = expanded
                  /\ library_path' = expanded
                  /\ pc' = "get_movie_path"
                  /\ UNCHANGED rejects
    /\ response' = <<>>
    /\ UNCHANGED <<is_dev, docker_check, last_input, removed_existing, environ, exit_status, summary, dirs, repos,
                   install_path, repo_path, movie_path, tv_path,
                   check_docker_result, runtime_up, config, opened, env,
                   procs, invoked, returncodes>>

\* A confirmation prompt that gives up on an answer other than "y".
LibraryConfirmAborts ==
    /\ pc = "confirm_library_path"
    /\ \E answer \in ConfirmInputs :
         /\ response' = Lower(Strip(answer))
         /\ IF Affirmative(answer)
            THEN /\ library_path' = entry
                 /\ pc' = "get_movie_path"
                 /\ UNCHANGED <<rejects, exit_status>>
            ELSE /\ rejects < MaxRejects
                 /\ rejects' = rejects + 1
                 /\ Exit(1)
                 /\ UNCHANGED library_path
    /\ UNCHANGED <<is_dev, docker_check, last_input, removed_existing, environ, summary, dirs, repos,
                   install_path, repo_path, movie_path, tv_path, entry,
                   check_docker_result, runtime_up, config, opened, env,
                   procs, invoked, returncodes>>

\* Lines 141-151, the confirmation prompt: "y" returns the entry, anything
\* else restarts the loop at the path prompt.
LibraryConfirm ==
    /\ pc = "confirm_library_path"
    /\ \E answer \in ConfirmInputs :
         /\ response' = Lower(Strip(answer))
         /\ IF Affirmative(answer)
            THEN /\ library_path' = entry
                 /\ pc' = "get_movie_path"
                 /\ UNCHANGED rejects
            ELSE /\ rejects < MaxRejects
                 /\ rejects' = rejects + 1
                 /\ pc' = "get_library_path"
                 /\ UNCHANGED library_path
    /\ UNCHANGED <<is_dev, docker_check, last_input, removed_existing, environ, exit_status, summary, dirs, repos,
                   install_path, repo_path, movie_path, tv_path, entry,
                   check_docker_result, runtime_up, config, opened, env,
                   procs, invoked, returncodes>>

\* The defaults main() passes to get_collection_path.
MoviesDefault == <<"Movies">>
TvDefault == <<"TV">>

\* get_collection_path: the trimmed answer, or the default when it is empty.
GetCollectionPath(inp, default_value) ==
    LET user_input == Strip(inp)
    IN  IF user_input # <<>> THEN user_input ELSE default_value

\* Line 281: movie_path = get_collection_path("Movie", "Movies")
MoviePrompt ==
    /\ pc = "get_movie_path"
    /\ \E inp \in CollectionInputs :
         /\ last_input' = inp
         /\ movie_path' = GetCollectionPath(inp, MoviesDefault)
    /\ pc' = "get_tv_path"
    /\ UNCHANGED <<is_dev, docker_check, removed_existing, environ, exit_status, summary,
                   dirs, repos, install_path, repo_path, library_path,
                   tv_path, entry, response, rejects, check_docker_result,
                   runtime_up, config, opened, env, procs, invoked,
                   returncodes>>

\* Line 282: tv_path = get_collection_path("TV Show", "TV")
TvPrompt ==
    /\ pc = "get_tv_path"
    /\ \E inp \in CollectionInputs :
         /\ last_input' = inp
         /\ tv_path' = GetCollectionPath(inp, TvDefault)
    /\ pc' = "update_config"
    /\ UNCHANGED <<is_dev, docker_check, removed_existing, environ, exit_status, summary,
                   dirs, repos, install_path, repo_path, library_path,
                   movie_path, entry, response, rejects, check_docker_result,
                   runtime_up, config, opened, env, procs, invoked,
                   returncodes>>

(***************************************************************************)
(* update_config                                                           *)
(***************************************************************************)

\* A file choice that takes the other mode's file.
ConfigFileSwapped(dev) == IF dev THEN "prod.json" ELSE "dev.json"

\* Line 169: config_file = "dev.json" if is_dev else "prod.json"
ConfigFile(dev) == IF dev THEN "dev.json" ELSE "prod.json"

\* An update that builds the document anew from the three values.
UpdatedConfigFresh(loaded, library, movie, tv) ==
    DictSet(DictSet(DictSet(<<>>, "libraryPath", library),
                    "libraryMoviePath", movie),
            "libraryTvPath", tv)

\* An update that gives the movie key the TV value and the TV key the
\* movie value.
UpdatedConfigSwapped(loaded, library, movie, tv) ==
    DictSet(DictSet(DictSet(loaded, "libraryPath", library),
                    "libraryMoviePath", tv),
            "libraryTvPath", movie)

\* Lines 184-186: the three assignments to the loaded dict.
UpdatedConfig(loaded, library, movie, tv) ==
    DictSet(DictSet(DictSet(loaded, "libraryPath", library),
                    "libraryMoviePath", movie),
            "libraryTvPath", tv)

\* Lines 174-190, as a function of the file's content: what one call of
\* update_config that can open the file leaves in it. A call that ends the
\* process (missing file, no JSON, no object) leaves the file as it was.
UpdateConfigFile(file, library, movie, tv) ==
    LET loaded == JsonLoad(file)
    IN  IF file.kind = "absent" \/ loaded.raised \/ ~loaded.isdict
        THEN file
        ELSE JsonDump(UpdatedConfig(loaded.dict, library, movie, tv))

\* The tree with one of its configuration files replaced.
WithFile(tree, name, file) ==
    [tree EXCEPT !.files = [tree.files EXCEPT ![name] = file]]

\* A read step that reports a missing file and goes on to the scripts.
UpdateConfigReadNoExit ==
    /\ pc = "update_config"
    /\ LET config_file == ConfigFile(is_dev)
           file == RepoTree.files[config_file]
           loaded == JsonLoad(file)
       IN  IF file.kind = "absent"
           THEN /\ pc' = "run_setup_scripts"
                /\ UNCHANGED <<opened, config, exit_status>>
           ELSE /\ opened' = opened \cup {<<config_file, "r">>}
                /\ IF loaded.raised \/ ~loaded.isdict
                   THEN /\ Exit(1)
                        /\ UNCHANGED config
                   ELSE /\ config' = UpdatedConfig(loaded.dict, library_path,
                                                   movie_path, tv_path)
                        /\ pc' = "save_config"
                        /\ UNCHANGED exit_status
    /\ last_input' = <<>>
    /\ UNCHANGED <<is_dev, docker_check, removed_existing, environ, summary, dirs, repos, install_path,
                   repo_path, library_path, movie_path, tv_path, entry,
                   response, rejects, check_docker_result, runtime_up, env,
                   procs, invoked, returncodes>>

\* Lines 169-186: a missing file ends the process before anything is opened;
\* otherwise the file is opened for reading and loaded, and text that is no
\* JSON (json.load raises) or is no object (the first assignment raises
\* TypeError) ends the process in the except clause. The answers read by
\* get_collection_path are gone by now; only its results are passed in.
UpdateConfigRead ==
    /\ pc = "update_config"
    /\ LET config_file == ConfigFile(is_dev)
           file == RepoTree.files[config_file]
           loaded == JsonLoad(file)
       IN  IF file.kind = "absent"
           THEN /\ Exit(1)
                /\ UNCHANGED <<opened, config>>
           ELSE /\ opened' = opened \cup {<<config_file, "r">>}
                /\ IF loaded.raised \/ ~loaded.isdict
                   THEN /\ Exit(1)
                        /\ UNCHANGED config
                   ELSE /\ config' = UpdatedConfig(loaded.dict, library_path,
                                                   movie_path, tv_path)
                        /\ pc' = "save_config"
                        /\ UNCHANGED exit_status
    /\ last_input' = <<>>
    /\ UNCHANGED <<is_dev, docker_check, removed_existing, environ, summary, dirs, repos, install_path,
                   repo_path, library_path, movie_path, tv_path, entry,
                   response, rejects, check_docker_result, runtime_up, env,
                   procs, invoked, returncodes>>

\* Lines 189-199: the file is opened for writing and the dict is dumped into
\* it; when the open fails the file stays as it was and the process ends.
UpdateConfigWrite ==
    /\ pc = "save_config"
    /\ LET config_file == ConfigFile(is_dev)
       IN  \E ok \in BOOLEAN :
             IF ok
             THEN /\ opened' = opened \cup {<<config_file, "w">>}
                  /\ repos' = [repos EXCEPT ![install_path] =
                                  WithFile(RepoTree, config_file, JsonDump(config))]
                  /\ pc' = "run_setup_scripts"
                  /\ UNCHANGED exit_status
             ELSE /\ Exit(1)
                  /\ UNCHANGED <<opened, repos>>
    /\ UNCHANGED <<is_dev, docker_check, last_input, removed_existing, environ, summary, dirs, install_path, repo_path,
                   library_path, movie_path, tv_path, entry, response, rejects,
                   check_docker_result, runtime_up, config, env, procs,
                   invoked, returncodes>>

(***************************************************************************)
(* run_setup_scripts                                                       *)
(***************************************************************************)

\* Lines 204-206: env = os.environ.copy(), and env["STAGE"] = "dev" in
\* development mode.
ChildEnv(parent, dev) == IF dev THEN StageIs("dev") ELSE parent

\* Lines 204-207.
RunSetupScriptsEnv ==
    /\ pc = "run_setup_scripts"
    /\ env' = ChildEnv(environ, is_dev)
    /\ pc' = "build"
    /\ UNCHANGED <<is_dev, docker_check, last_input, removed_existing, environ, exit_status, summary, dirs, repos,
                   install_path, repo_path, library_path, movie_path, tv_path,
                   entry, response, rejects, check_docker_result, runtime_up,
                   config, opened, procs, invoked, returncodes>>

\* subprocess.Popen("bash ./<script>", cwd=repo_path, shell=True, env=env)
Popen(script) ==
    /\ procs' = procs \cup {script}
    /\ invoked' = Append(invoked, [script |-> script, stage |-> env,
                                   cwd |-> repo_path])
    /\ UNCHANGED <<is_dev, docker_check, last_input, removed_existing, environ, exit_status, summary, dirs, repos,
                   install_path, repo_path, library_path, movie_path, tv_path,
                   entry, response, rejects, check_docker_result, runtime_up,
                   config, opened, env, returncodes>>

\* A step that reads the exit code without waiting for the script to end.
WaitSkipped(script, rc) ==
    /\ returncodes' = Append(returncodes, rc)
    /\ UNCHANGED <<is_dev, docker_check, last_input, removed_existing,
                   environ, summary, dirs, repos, install_path, repo_path,
                   library_path, movie_path, tv_path, entry, response,
                   rejects, check_docker_result, runtime_up, config, opened,
                   env, invoked, procs>>

\* process.wait() for a script that exits with rc.
Wait(script, rc) ==
    /\ procs' = procs \ {script}
    /\ returncodes' = Append(returncodes, rc)
    /\ UNCHANGED <<is_dev, docker_check, last_input, removed_existing, environ, summary, dirs, repos, install_path,
                   repo_path, library_path, movie_path, tv_path, entry,
                   response, rejects, check_docker_result, runtime_up, config,
                   opened, env, invoked>>

\* Lines 209-214.
BuildPopen ==
    /\ pc = "build"
    /\ Popen("build-worker.sh")
    /\ pc' = "build_wait"

\* Lines 215-218: a non-zero exit of build-worker.sh ends the process.
BuildWait ==
    /\ pc = "build_wait"
    /\ \E rc \in ScriptExitCodes :
         /\ Wait("build-worker.sh", rc)
         /\ IF rc # 0
            THEN Exit(1)
            ELSE pc' = "setup" /\ UNCHANGED exit_status

\* Lines 220-225.
SetupPopen ==
    /\ pc = "setup"
    /\ Popen("setup-worker.sh")
    /\ pc' = "setup_wait"

\* A setup step that goes on after a non-zero exit.
SetupWaitTolerant ==
    /\ pc = "setup_wait"
    /\ \E rc \in ScriptExitCodes :
         /\ Wait("setup-worker.sh", rc)
         /\ pc' = "stop"
         /\ UNCHANGED exit_status

\* Lines 226-229: a non-zero exit of setup-worker.sh ends the process.
SetupWait ==
    /\ pc = "setup_wait"
    /\ \E rc \in ScriptExitCodes :
         /\ Wait("setup-worker.sh", rc)
         /\ IF rc # 0
            THEN Exit(1)
            ELSE pc' = "stop" /\ UNCHANGED exit_status

\* Lines 231-236.
StopPopen ==
    /\ pc = "stop"
    /\ Popen("stop-worker.sh")
    /\ pc' = "stop_wait"

\* A stop step that treats a non-zero exit like the other scripts do.
StopWaitFatal ==
    /\ pc = "stop_wait"
    /\ \E rc \in ScriptExitCodes :
         /\ Wait("stop-worker.sh", rc)
         /\ IF rc # 0
            THEN Exit(1)
            ELSE pc' = "start" /\ UNCHANGED exit_status

\* Lines 237-239: a non-zero exit of stop-worker.sh only prints a warning.
StopWait ==
    /\ pc = "stop_wait"
    /\ \E rc \in ScriptExitCodes :
         /\ Wait("stop-worker.sh", rc)
         /\ pc' = "start"
         /\ UNCHANGED exit_status

\* Lines 241-246.
StartPopen ==
    /\ pc = "start"
    /\ Popen("start-worker.sh")
    /\ pc' = "start_wait"

\* Lines 247-250: a non-zero exit of start-worker.sh ends the process.
StartWait ==
    /\ pc = "start_wait"
    /\ \E rc \in ScriptExitCodes :
         /\ Wait("start-worker.sh", rc)
         /\ IF rc # 0
            THEN Exit(1)
            ELSE pc' = "summary" /\ UNCHANGED exit_status

(***************************************************************************)
(* main                                                                    *)
(***************************************************************************)

\* Lines 290-304: the summary is printed and main() returns, which ends
\* the process with status 0.
Summary ==
    /\ pc = "summary"
    /\ summary' = <<[repo |-> repo_path, dev |-> is_dev,
                     library |-> library_path, movie |-> movie_path,
                     tv |-> tv_path]>>
    /\ Exit(0)
    /\ UNCHANGED <<is_dev, docker_check, last_input, removed_existing, environ, dirs, repos, install_path, repo_path,
                   library_path, movie_path, tv_path, entry, response, rejects,
                   check_docker_result, runtime_up, config, opened, env,
                   procs, invoked, returncodes>>

\* main(): the steps in program order.
Next ==
    \/ GetInstallPath
    \/ CloneRemove
    \/ GitCloneSpawn
    \/ GitCloneExit
    \/ DockerVersionSpawn
    \/ DockerVersionExit
    \/ DockerPsSpawn
    \/ DockerPsExit
    \/ LibraryPrompt
    \/ LibraryConfirm
    \/ MoviePrompt
    \/ TvPrompt
    \/ UpdateConfigRead
    \/ UpdateConfigWrite
    \/ RunSetupScriptsEnv
    \/ BuildPopen
    \/ BuildWait
    \/ SetupPopen
    \/ SetupWait
    \/ StopPopen
    \/ StopWait
    \/ StartPopen
    \/ StartWait
    \/ Summary

Spec == Init /\ [][Next]_vars

\* The same runs under the assumptions that the interpreter goes on to its
\* next statement, that every external command started exits, and that the
\* operator answers every prompt; the operator gives an accepted library
\* path after at most MaxRejects rejected entries.
\* The runs are those started in production mode with STAGE unset and with
\* nothing or a partial clone at the default install path.
LiveInit ==
    /\ Init
    /\ ~is_dev
    /\ environ = NoStage
    /\ repos[Cwd] \in {NoRepo, PartialTree}

LiveSpec == LiveInit /\ [][Next]_vars /\ WF_vars(Next)

(***************************************************************************)
(* Properties                                                              *)
(***************************************************************************)

\* The scripts whose failure run_setup_scripts treats as fatal.
FatalScripts == {"build-worker.sh", "setup-worker.sh", "start-worker.sh"}

\* The positions of start-worker.sh among the scripts started.
StartInvocations == {i \in DOMAIN invoked : invoked[i].script = "start-worker.sh"}

\* C1: once build-worker.sh, setup-worker.sh or start-worker.sh has exited
\* non-zero, it is the last script that was started, nothing is running,
\* the process has ended with a non-zero status and no summary was printed.
C1_FatalScriptAborts ==
    \A i \in DOMAIN returncodes :
        (returncodes[i] # 0 /\ invoked[i].script \in FatalScripts)
            => /\ Len(invoked) = i
               /\ procs = {}
               /\ pc = "exited"
               /\ exit_status # 0
               /\ summary = <<>>

\* C1 witness: setup-worker.sh exited non-zero after build-worker.sh exited
\* zero, and the run has ended.
C1_Witness ==
    /\ pc = "exited"
    /\ Len(returncodes) = 2
    /\ invoked[2].script = "setup-worker.sh"
    /\ returncodes = <<0, 1>>

\* C2: once stop-worker.sh has exited (build and setup exited zero before
\* it), the run goes on to start-worker.sh whatever stop's exit code was; a
\* run that ended after stop has started start-worker.sh exactly once, as
\* the script after stop, and its outcome follows start's exit code alone.
C2_StopTolerated ==
    /\ Len(returncodes) = 3 => pc \in {"start", "start_wait"}
    /\ (Len(returncodes) >= 3 /\ pc \notin {"start"})
           => /\ Len(invoked) = 4
              /\ StartInvocations = {4}
              /\ invoked[3].script = "stop-worker.sh"
    /\ (Len(returncodes) >= 3 /\ pc = "exited")
           => /\ Len(returncodes) = 4
              /\ exit_status = (IF returncodes[4] = 0 THEN 0 ELSE 1)
              /\ (summary # <<>>) <=> (returncodes[4] = 0)

\* C2 witness: stop-worker.sh exited non-zero and the run ended with
\* status 0 after start-worker.sh exited zero.
C2_Witness ==
    /\ pc = "exited"
    /\ exit_status = 0
    /\ returncodes = <<0, 0, 1, 0>>
    /\ summary # <<>>

\* check_docker has returned (with either value).
CheckDockerReturned == check_docker_result # "none"

\* C3: check_docker returns true only if "docker --version" and "docker ps"
\* both exited zero; when either did not, it returns false and the run ends
\* with a non-zero status before the library prompt, before any
\* configuration file is opened and before any script is started.
C3_RuntimeGate ==
    /\ check_docker_result = "true" => runtime_up
    /\ (CheckDockerReturned /\ ~runtime_up)
           => /\ check_docker_result = "false"
              /\ pc = "exited"
              /\ exit_status # 0
              /\ entry = <<>>
              /\ library_path = <<>>
              /\ opened = {}
              /\ invoked = <<>>

\* C4: a successful write leaves in the selected file an object whose keys
\* are those of the object it held before together with the three target
\* keys, with every other key's value as before and the three target keys
\* holding the library, movie and TV values.
C4_MergeByOverwrite ==
    [][(pc = "save_config" /\ pc' = "run_setup_scripts") =>
           LET name == IF is_dev THEN "dev.json" ELSE "prod.json"
               before == JsonLoad(repos[install_path].files[name]).dict
               after == JsonLoad(repos'[install_path].files[name]).dict
           IN  /\ repos[install_path].files[name].kind = "object"
               /\ repos'[install_path].files[name].kind = "object"
               /\ DictKeys(after) = DictKeys(before) \cup TargetKeys
               /\ \A k \in DictKeys(before) \ TargetKeys :
                      DictGet(after, k) = DictGet(before, k)
               /\ DictGet(after, "libraryPath") = library_path
               /\ DictGet(after, "libraryMoviePath") = movie_path
               /\ DictGet(after, "libraryTvPath") = tv_path]_vars

\* C4 witness: the selected file was rewritten, it shipped with a key
\* outside the three and with a different libraryPath, and it now holds
\* that key and the three values.
C4_Witness ==
    /\ pc = "run_setup_scripts"
    /\ ~is_dev
    /\ LET d == JsonLoad(RepoTree.files["prod.json"]).dict
       IN  /\ DictKeys(d) = {"port"} \cup TargetKeys
           /\ DictGet(d, "port") = OldB
           /\ DictGet(d, "libraryPath") = library_path
           /\ library_path # OldA
           /\ DictGet(d, "libraryMoviePath") = <<"c">>
           /\ DictGet(d, "libraryTvPath") = TvDefault

\* The run is past a successful clone and has not ended.
Cloned ==
    pc \notin {"get_install_path", "clone_repository", "git_clone",
               "git_clone_wait", "exited"}

\* C5: the only configuration file the run opens, for reading or writing,
\* is dev.json in development mode and prod.json in production mode, and
\* from the end of the clone on the other mode's file stays as cloned.
C5_ModeSelectsFile ==
    /\ [](\A o \in opened : o[1] = (IF is_dev THEN "dev.json" ELSE "prod.json"))
    /\ [][Cloned =>
            LET other == IF is_dev THEN "prod.json" ELSE "dev.json"
            IN  repos'[install_path].files[other]
                    = repos[install_path].files[other]]_vars

\* C5 witness: a development-mode run has read and written dev.json and
\* ended with status 0 while prod.json holds what was shipped.
C5_Witness ==
    /\ pc = "exited"
    /\ exit_status = 0
    /\ is_dev
    /\ opened = {<<"dev.json", "r">>, <<"dev.json", "w">>}
    /\ RepoTree.files["prod.json"] = GarbageFile
    /\ RepoTree.files["dev.json"] # PlainFile

\* C6: every script started sees STAGE as the mode alone sets it, "dev" in
\* development mode and unset in production mode, whatever STAGE was in
\* the installer's own environment.
C6_StageFromModeOnly ==
    \A i \in DOMAIN invoked :
        invoked[i].stage = (IF is_dev THEN StageIs("dev") ELSE NoStage)

\* C7: when "git clone" is started and while it runs nothing is at
\* repo_path = install_path/media-library-source-worker, whatever an
\* earlier run left there, and from a successful clone until the
\* configuration write the tree at repo_path is exactly a shipped tree.
C7_CloneIntoCleanDestination ==
    /\ pc \in {"git_clone", "git_clone_wait"}
           => /\ repos[install_path].state = "none"
              /\ repo_path = install_path \o <<"/">> \o RepoName
    /\ (Cloned /\ \A o \in opened : o[2] # "w")
           => repos[install_path] \in ShippedTrees

\* C7 witness: an earlier tree was removed and this run's clone succeeded.
C7_Witness ==
    /\ removed_existing
    /\ pc = "check_docker"
    /\ install_path = Cwd
    /\ repos[Cwd] \in ShippedTrees

\* C8: get_library_path returns only an entry that is non-empty and either
\* exists or was confirmed with "y" in the iteration that entered it; an
\* empty entry, and any other confirmation answer, lead back to the path
\* prompt with nothing returned.
C8_LibraryPathAccepted ==
    /\ []((CheckDockerReturned /\ check_docker_result = "true"
             /\ pc \notin {"get_library_path", "confirm_library_path"})
            => /\ library_path # <<>>
               /\ library_path = entry
               /\ \/ library_path \in dirs /\ response = <<>>
                  \/ library_path \notin dirs /\ response = <<"y">>)
    /\ [][(pc = "confirm_library_path" /\ response' # <<"y">>)
            => (pc' = "get_library_path" /\ library_path' = <<>>)]_vars
    /\ [][(pc = "get_library_path" /\ entry' = <<>>)
            => (pc' = "get_library_path" /\ library_path' = <<>>)]_vars
    /\ [](pc \in {"get_library_path", "confirm_library_path"}
            => library_path = <<>>)

\* C8 witness: after two rejected entries a path that does not exist was
\* confirmed and returned.
C8_Witness ==
    /\ pc = "get_movie_path"
    /\ rejects = 2
    /\ response = <<"y">>
    /\ library_path = <<"/", "h", "/", "b">>
    /\ library_path \notin dirs

\* Everything the workflow needs has succeeded.
FullSuccess ==
    /\ install_path \in dirs
    /\ runtime_up
    /\ repos[install_path].state = "dir"
    /\ \E name \in ConfigFiles : {<<name, "r">>, <<name, "w">>} \subseteq opened
    /\ Len(returncodes) = 4
    /\ returncodes[1] = 0 /\ returncodes[2] = 0 /\ returncodes[4] = 0
    /\ summary # <<>>

\* C9: the run ends with status 0 exactly when the install directory was
\* available, the runtime check passed on a runtime that is there, the
\* clone succeeded, the configuration file was read and rewritten, build,
\* setup and start exited zero and the summary was printed.
C9_ExitZeroIffFullSuccess ==
    pc = "exited" => (exit_status = 0 <=> FullSuccess)

\* C10: when the selected configuration file is absent or is not the text
\* of a JSON object, update_config ends the process with a non-zero status
\* and leaves the whole tree as it was: no file is created or changed, the
\* write is never reached and no script is started.
C10_ReadErrorLeavesFile ==
    [][(pc = "update_config"
          /\ repos[install_path]
                 .files[IF is_dev THEN "dev.json" ELSE "prod.json"].kind
               \in {"absent", "garbage", "array"})
         => /\ pc' = "exited"
            /\ exit_status' # 0
            /\ repos' = repos
            /\ \A o \in opened' : o[2] = "r"
            /\ invoked' = <<>>]_vars

\* C10 witness: the run ended with a non-zero status after reading a
\* selected file that is no JSON, and the file is as shipped.
C10_Witness ==
    /\ pc = "exited"
    /\ exit_status # 0
    /\ ~is_dev
    /\ opened = {<<"prod.json", "r">>}
    /\ RepoTree.files["prod.json"] = GarbageFile
    /\ invoked = <<>>

\* The dict json.load makes of the configuration file the mode selects.
SelectedConfig ==
    JsonLoad(repos[install_path].files[IF is_dev THEN "dev.json"
                                       ELSE "prod.json"]).dict

\* C11 as claimed: an empty answer to a collection prompt gives the default
\* and any non-empty answer is the result exactly as it was entered.
C11_AnswerUsedAsEntered ==
    [][/\ pc = "get_movie_path"
            => movie_path' = (IF last_input' = <<>> THEN <<"Movies">>
                              ELSE last_input')
       /\ pc = "get_tv_path"
            => tv_path' = (IF last_input' = <<>> THEN <<"TV">>
                           ELSE last_input')]_vars

\* C11 as amended: the result of a collection prompt is the answer with the
\* surrounding whitespace removed, or the default ("Movies", "TV") when
\* nothing is left; the three values do not change once collected; after
\* the write libraryPath holds what get_library_path returned,
\* libraryMoviePath the movie result and libraryTvPath the TV result; and
\* the summary shows the same three values the file holds.
C11_ValuesReachConfig ==
    /\ [][/\ pc = "get_movie_path"
               => movie_path' = (IF Strip(last_input') = <<>> THEN <<"Movies">>
                                 ELSE Strip(last_input'))
          /\ pc = "get_tv_path"
               => tv_path' = (IF Strip(last_input') = <<>> THEN <<"TV">>
                              ELSE Strip(last_input'))
          /\ pc \notin {"get_library_path", "confirm_library_path"}
               => library_path' = library_path
          /\ pc # "get_movie_path" => movie_path' = movie_path
          /\ pc # "get_tv_path" => tv_path' = tv_path
          /\ pc = "save_config" /\ pc' = "run_setup_scripts"
               => LET name == IF is_dev THEN "dev.json" ELSE "prod.json"
                      after == JsonLoad(repos'[install_path].files[name]).dict
                  IN  /\ DictGet(after, "libraryPath") = entry
                      /\ DictGet(after, "libraryMoviePath") = movie_path
                      /\ DictGet(after, "libraryTvPath") = tv_path]_vars
    /\ [](summary # <<>>
            => /\ summary[1].library = library_path
               /\ summary[1].movie = movie_path
               /\ summary[1].tv = tv_path
               /\ DictGet(SelectedConfig, "libraryPath") = summary[1].library
               /\ DictGet(SelectedConfig, "libraryMoviePath") = summary[1].movie
               /\ DictGet(SelectedConfig, "libraryTvPath") = summary[1].tv)

\* C11 witness: the run ended with the summary after a movie answer with
\* blanks around it and an empty TV answer; the file holds the trimmed
\* movie value and the TV default.
C11_Witness ==
    /\ pc = "exited"
    /\ summary # <<>>
    /\ summary[1].movie = <<"c">>
    /\ summary[1].tv = <<"TV">>
    /\ summary[1].library = <<"/", "h", "/", "b">>
    /\ DictGet(SelectedConfig, "libraryMoviePath") = <<"c">>
    /\ DictGet(SelectedConfig, "libraryTvPath") = <<"TV">>

\* C12: a captured run_command call whose command exits non-zero returns
\* None, with check enabled or disabled, and a zero exit returns the
\* trimmed standard output: after "docker --version", run with check
\* disabled, docker_check is None exactly when the command did not exit
\* zero, and is the trimmed output otherwise.
C12_NonZeroExitIsNone ==
    pc \in {"docker_ps", "docker_ps_wait"}
        => /\ runtime_up => docker_check = Text(<<"v", "1">>)
           /\ ~runtime_up => docker_check = None

\* The order of the scripts in run_setup_scripts.
ScriptOrder ==
    <<"build-worker.sh", "setup-worker.sh", "stop-worker.sh", "start-worker.sh">>

\* C13: the scripts started are a prefix of build, setup, stop, start (so
\* each is started at most once and only after those before it); a script
\* is started only when every script started before it has exited; and at
\* most one external command is running at any time, which during the
\* script phase is the script started last.
C13_FixedOrderOneAtATime ==
    /\ Len(invoked) <= 4
    /\ \A i \in DOMAIN invoked : invoked[i].script = ScriptOrder[i]
    /\ Len(returncodes) <= Len(invoked)
    /\ Len(invoked) <= Len(returncodes) + 1
    /\ Cardinality(procs) <= 1
    /\ IF Len(invoked) = Len(returncodes) + 1
       THEN procs = {invoked[Len(invoked)].script}
       ELSE invoked # <<>> => procs = {}

\* C13 witness: start-worker.sh is running after the three scripts before
\* it have exited, stop-worker.sh with a non-zero code.
C13_Witness ==
    /\ Len(invoked) = 4
    /\ returncodes = <<0, 0, 1>>
    /\ procs = {"start-worker.sh"}

\* The values a shipped configuration file may hold.
ShippedValues == {OldA, OldB}

\* A run that has ended after a successful clone in which every external
\* command that ran exited zero.
EndedWithCommandsOk ==
    /\ pc = "exited"
    /\ check_docker_result = "true"
    /\ runtime_up
    /\ \A i \in DOMAIN returncodes : returncodes[i] = 0

\* What a recovered run ends with: status 0, the summary, and a selected
\* file holding shipped keys with shipped values plus the three values of
\* this run, with nothing of an earlier run left in either file.
Recovered ==
    /\ exit_status = 0
    /\ summary # <<>>
    /\ TargetKeys \subseteq DictKeys(SelectedConfig)
    /\ DictGet(SelectedConfig, "libraryPath") = library_path
    /\ DictGet(SelectedConfig, "libraryMoviePath") = movie_path
    /\ DictGet(SelectedConfig, "libraryTvPath") = tv_path
    /\ \A f \in ConfigFiles :
         LET d == JsonLoad(repos[install_path].files[f]).dict
         IN  \A k \in DictKeys(d) :
               \/ DictGet(d, k) \in ShippedValues
               \/ /\ f = (IF is_dev THEN "dev.json" ELSE "prod.json")
                  /\ k \in TargetKeys

Triples ==
    {<<l, m, t>> : l \in {<<"/", "a">>, <<"/", "h", "/", "b">>},
                   m \in {<<"Movies">>, <<"c">>},
                   t \in {<<"TV">>, <<"c">>}}

\* Two files hold the same JSON object: the same keys with the same values.
SameObject(a, b) ==
    LET x == JsonLoad(a).dict
        y == JsonLoad(b).dict
    IN  /\ a.kind = b.kind
        /\ DictKeys(x) = DictKeys(y)
        /\ \A k \in DictKeys(x) : DictGet(x, k) = DictGet(y, k)

\* C15: update_config is idempotent and its last application wins. The
\* write step of a run leaves in the selected file what one application of
\* update_config to the cloned file gives; applying update_config to the
\* rewritten file again with the run's three values leaves the same JSON
\* object; and applying it to the cloned file with the run's values and then
\* with any other triple gives the object that applying it with that other
\* triple alone gives.
C15_UpdateIdempotent ==
    /\ [][(pc = "save_config" /\ pc' = "run_setup_scripts") =>
            LET name == IF is_dev THEN "dev.json" ELSE "prod.json"
            IN  repos'[install_path].files[name] =
                    UpdateConfigFile(repos[install_path].files[name],
                                     library_path, movie_path, tv_path)]_vars
    /\ [](<<IF is_dev THEN "dev.json" ELSE "prod.json", "w">> \in opened =>
            LET once == repos[install_path]
                            .files[IF is_dev THEN "dev.json" ELSE "prod.json"]
            IN  SameObject(UpdateConfigFile(once, library_path, movie_path,
                                            tv_path),
                           once))
    /\ [](pc = "save_config" =>
            LET cloned == repos[install_path]
                              .files[IF is_dev THEN "dev.json" ELSE "prod.json"]
                first == UpdateConfigFile(cloned, library_path, movie_path,
                                          tv_path)
            IN  \A t \in Triples :
                  SameObject(UpdateConfigFile(first, t[1], t[2], t[3]),
                             UpdateConfigFile(cloned, t[1], t[2], t[3])))

\* C15 witness: the selected file of a clone that shipped "name" and two of
\* the three keys has been rewritten with /a, c and TV; a second application
\* with the same values gives the same text, and one with other values
\* keeps "name" and holds the other values.
C15_Witness ==
    /\ pc = "run_setup_scripts"
    /\ <<library_path, movie_path, tv_path>> = << <<"/", "a">>, <<"c">>, <<"TV">> >>
    /\ LET once == repos[install_path]
                        .files[IF is_dev THEN "dev.json" ELSE "prod.json"]
           again == UpdateConfigFile(once, <<"/", "a">>, <<"c">>, <<"TV">>)
           other == JsonLoad(UpdateConfigFile(once, <<"/", "h", "/", "b">>,
                                              <<"Movies">>, <<"c">>)).dict
       IN  /\ once = ObjFile(<< <<"libraryTvPath", <<"TV">> >>,
                                <<"name", OldA>>,
                                <<"libraryMoviePath", <<"c">> >>,
                                <<"libraryPath", <<"/", "a">> >> >>)
           /\ again = once
           /\ other = << <<"libraryTvPath", <<"c">> >>,
                         <<"name", OldA>>,
                         <<"libraryMoviePath", <<"Movies">> >>,
                         <<"libraryPath", <<"/", "h", "/", "b">> >> >>

\* The positions inside the loop of get_library_path.
LibraryLoop == {"get_library_path", "confirm_library_path"}

\* C16: the library-path loop never aborts and the run always ends. A step
\* taken inside get_library_path either stays in the loop or returns a
\* non-empty library path to main(), and never ends the process; and every
\* run eventually ends, either with status 0 after the summary or with a
\* non-zero status without it.
C16_LoopNeverAbortsRunEnds ==
    /\ [][(pc \in LibraryLoop) =>
            (/\ pc' \in LibraryLoop \cup {"get_movie_path"}
             /\ pc' = "get_movie_path" => library_path' # <<>>
             /\ pc' \in LibraryLoop => library_path' = <<>>
             /\ exit_status' = exit_status
             /\ summary' = summary)]_vars
    /\ <>(/\ pc = "exited"
          /\ \/ exit_status = 0 /\ summary # <<>>
             \/ exit_status # 0 /\ summary = <<>>)

\* C16 witness: a run in which the operator's library-path entries were
\* rejected MaxRejects times has ended with the summary.
C16_Witness ==
    /\ pc = "exited"
    /\ rejects = MaxRejects
    /\ exit_status = 0
    /\ summary # <<>>

\* C17 as claimed: get_install_path returns a directory in which the clone
\* can be run. An answer that is empty once trimmed gives the current
\* directory; any other answer gives its expanded absolute path, which is a
\* directory when get_install_path returns; a failing creation ends the
\* process with a non-zero status with no tree removed and no command
\* started; and the install path of a run is a directory from then on.
C17_InstallPathIsDirectory ==
    /\ [][(pc = "get_install_path") =>
            LET user_input == Strip(last_input')
            IN  /\ user_input = <<>> =>
                      (install_path' = Cwd /\ pc' = "clone_repository")
                /\ (user_input # <<>> /\ pc' # "exited") =>
                      (/\ install_path' = AbsPath(ExpandUser(user_input))
                       /\ install_path' \in dirs'
                       /\ pc' = "clone_repository")
                /\ pc' = "exited" =>
                      (/\ exit_status' # 0
                       /\ install_path' = <<>>
                       /\ repos' = repos
                       /\ dirs' = dirs
                       /\ procs' = {}
                       /\ ~removed_existing')]_vars
    /\ [](install_path # <<>> => install_path \in dirs)

\* C18: no lifecycle script runs against an unprovisioned repository. Once
\* a script has been started, the tree of this run's clone is at the
\* repository root under a directory, check_docker has returned True, the
\* file selected by the mode has been opened for writing and holds this
\* run's library, movie and TV values under the three keys, and every script
\* was started with the repository root, the install path joined with the
\* repository name, as its working directory.
C18_ScriptsRunProvisioned ==
    invoked # <<>> =>
        /\ install_path \in dirs
        /\ repos[install_path].state = "dir"
        /\ check_docker_result = "true"
        /\ <<IF is_dev THEN "dev.json" ELSE "prod.json", "w">> \in opened
        /\ TargetKeys \subseteq DictKeys(SelectedConfig)
        /\ DictGet(SelectedConfig, "libraryPath") = library_path
        /\ DictGet(SelectedConfig, "libraryMoviePath") = movie_path
        /\ DictGet(SelectedConfig, "libraryTvPath") = tv_path
        /\ library_path # <<>> /\ movie_path # <<>> /\ tv_path # <<>>
        /\ \A i \in DOMAIN invoked :
              invoked[i].cwd = install_path \o <<"/">> \o RepoName

\* C18 witness: build-worker.sh is running in the repository cloned under
\* the new directory /h/i, whose dev.json holds the run's three values.
C18_Witness ==
    /\ pc = "build_wait"
    /\ is_dev
    /\ procs = {"build-worker.sh"}
    /\ invoked[1].cwd = <<"/", "h", "/", "i", "/", "media-library-source-worker">>
    /\ check_docker_result = "true"
    /\ JsonLoad(repos[<<"/", "h", "/", "i">>].files["dev.json"]).dict =
           << <<"port", OldB>>, <<"libraryPath", <<"/", "a">> >>,
              <<"libraryMoviePath", <<"Movies">> >>,
              <<"libraryTvPath", <<"c">> >> >>
    /\ library_path = <<"/", "a">>
    /\ movie_path = <<"Movies">>
    /\ tv_path = <<"c">>

====
